---- MODULE Spec2Model ----
(***************************************************************************)
(* The scripts of the normalizing-flows examples as one state machine:     *)
(*   nb = "nsf"    examples/paper_example_nsf.ipynb (neural spline flow,   *)
(*                 reverse-KL training),                                   *)
(*   nb = "rnvp"   the Real NVP notebook (maximum-likelihood training),    *)
(*   nb = "readme" the Usage snippet of README.md.                         *)
(* Each script runs its cells top to bottom; pc is the next statement.     *)
(* Tensors are abstracted to the float classes the scripts test for        *)
(* (isnan, isinf); every value returned by the external library is a       *)
(* nondeterministic choice over those classes.                             *)
(***************************************************************************)
EXTENDS Integers, Sequences, FiniteSets, TLC

\* ---------------------------------------------------------------- bounds
\* largest max_iter explored by Spec (the notebooks use 10000)
MaxIter == 3
\* largest show_iter explored by Spec (the notebooks use 500 and 2000)
MaxShow == 2
\* number of grid points of zz (the notebooks use 300*300 and 200*200)
GridN == 1

\* ------------------------------------------------------ program constants
K_nsf == 12
K_rnvp == 32
num_layers == 32
max_iter_nsf == 10000
show_iter_nsf == 500
num_samples_nsf == 16384
num_samples_rnvp == 32

Grid == 1..GridN

\* ------------------------------------------------------- float arithmetic
\* classes of a scalar loss
LossVals == {"fin", "nan", "pinf", "ninf"}
\* classes of a log-density: "huge" is a finite value whose exponential
\* overflows the float range
LogVals == {"fin", "huge", "nan", "pinf", "ninf"}

isnan(v) == v = "nan"
isinf(v) == v \in {"pinf", "ninf"}
IsFinite(v) == ~(isnan(v) \/ isinf(v))

\* torch.exp on one entry
exp1(v) ==
  CASE v = "nan" -> "nan"
    [] v = "pinf" -> "pinf"
    [] v = "huge" -> "pinf"
    [] v = "ninf" -> "zero"
    [] OTHER -> "pos"

\* torch.exp(log_prob)
TorchExp(lp) == [c \in DOMAIN lp |-> exp1(lp[c])]

\* prob[torch.isnan(prob)] = 0
\* faulty variant: the replacement is left out
ZeroNaNOmitted(p) == p
ZeroNaN(p) == [c \in DOMAIN p |-> IF isnan(p[c]) THEN "zero" ELSE p[c]]

\* torch.max(prob) of an array of classes
TorchMax(p) ==
  IF \E c \in DOMAIN p : p[c] = "nan" THEN "nan"
  ELSE IF \E c \in DOMAIN p : p[c] = "pinf" THEN "pinf"
  ELSE IF \E c \in DOMAIN p : p[c] = "pos" THEN "pos"
  ELSE "zero"

\* one entry of prob / torch.max(prob)
div1(a, m) ==
  CASE a = "nan" \/ m = "nan" -> "nan"
    [] a = "pinf" /\ m = "pinf" -> "nan"
    [] a = "zero" /\ m = "zero" -> "nan"
    [] m = "pinf" -> "zero"
    [] m = "zero" -> "pinf"
    [] OTHER -> a

\* prob_vis = prob / torch.max(prob)
Normalise(p) == [c \in DOMAIN p |-> div1(p[c], TorchMax(p))]

\* GaussianVonMises.log_prob on one grid point: a sum of finite terms
GaussianVonMises_log_prob(c) == "fin"

\* ------------------------------------------------------ checkpoint names
DigitChar == <<"0", "1", "2", "3", "4", "5", "6", "7", "8", "9">>

RECURSIVE Decimal(_)
\* the decimal digits of n >= 0
Decimal(n) == IF n < 10 THEN DigitChar[n + 1]
              ELSE Decimal(n \div 10) \o DigitChar[(n % 10) + 1]

RECURSIVE ZeroPad(_, _)
\* s padded on the left with zeros to at least w characters
ZeroPad(s, w) == IF Len(s) >= w THEN s ELSE ZeroPad("0" \o s, w)

\* '%05i' % n
Fmt05i(n) == ZeroPad(Decimal(n), 5)

\* 'model_%05i.pt' % (it + 1)
\* faulty variant: names the file after it instead of it + 1
CheckpointNameOffByOne(i0) == "model_" \o Fmt05i(i0) \o ".pt"
CheckpointName(i0) == "model_" \o Fmt05i(i0 + 1) \o ".pt"

\* ----------------------------------------------------------------- state
VARIABLES
  nb,          \* which script is running
  pc,          \* next statement
  env,         \* float classes the library produces in this run
  i,           \* loop variable of the flow-list construction
  flows,       \* the list of flow layers
  max_iter, show_iter, num_samples,
  it,          \* loop variable of the training loop, -1 before the loop
  iters,       \* number of loop bodies entered
  x,           \* the batch drawn from the target
  loss,        \* the loss tensor of the current iteration
  lossFrom,    \* the call that produced loss
  loss_hist,   \* np.array of logged losses
  grad,        \* accumulated .grad of the parameters: set of loss tags
  optSteps,    \* number of optimizer.step() calls applied to the parameters
  lastStep,    \* the gradient the last optimizer.step() applied
  sched,       \* number of scheduler.step() calls
  mode,        \* "train" or "eval" (nn.Module.training)
  noGrad,      \* inside a torch.no_grad() block
  log_prob, prob,
  evalAt,      \* when log_prob was last evaluated from the model
  plotted,     \* the array handed to the last pcolormesh / plot_surface
  nshown,      \* number of plots made inside the training loop
  files,       \* names written by model.save, in order
  ops          \* the statements executed so far in the current iteration

vars == <<nb, pc, env, i, flows, max_iter, show_iter, num_samples, it, iters,
          x, loss, lossFrom, loss_hist, grad, optSteps, lastStep, sched,
          mode, noGrad, log_prob, prob, evalAt, plotted, nshown, files, ops>>

ctl == <<nb, env, max_iter, show_iter, num_samples>>
build == <<i, flows>>
loopv == <<it, iters>>
lossv == <<x, loss, lossFrom>>
optv == <<grad, optSteps, lastStep>>
modev == <<mode, noGrad>>
densv == <<log_prob, prob, evalAt>>
outv == <<plotted, nshown, files>>

None == "none"
NoBatch == [src |-> None, n |-> 0, it |-> -1]
NoCall == [method |-> None, src |-> None, n |-> 0, it |-> -1]
NoEval == [it |-> -1, steps |-> 0, logged |-> 0, mode |-> None, noGrad |-> FALSE]
NoPlot == [call |-> None, src |-> None, prob |-> <<>>, arr |-> <<>>]

FirstPc(n) == CASE n = "nsf" -> "nsf_plot_target"
                [] n = "rnvp" -> "rnvp_flows"
                [] OTHER -> "readme_block"

InitWith(n, mi, si, ns, lossSet, logSet) ==
  /\ nb = n
  /\ pc = FirstPc(n)
  /\ env = [loss |-> lossSet, logp |-> logSet]
  /\ i = 0
  /\ flows = <<>>
  /\ max_iter = mi
  /\ show_iter = si
  /\ num_samples = ns
  /\ it = -1
  /\ iters = 0
  /\ x = NoBatch
  /\ loss = None
  /\ lossFrom = NoCall
  /\ loss_hist = <<>>
  /\ grad = {}
  /\ optSteps = 0
  /\ lastStep = {}
  /\ sched = 0
  /\ mode = None
  /\ noGrad = FALSE
  /\ log_prob = <<>>
  /\ prob = <<>>
  /\ evalAt = NoEval
  /\ plotted = NoPlot
  /\ nshown = 0
  /\ files = <<>>
  /\ ops = <<>>

\* every script, with max_iter and show_iter drawn from the bounded ranges
Init ==
  \/ \E mi \in 1..MaxIter, si \in 1..MaxShow :
       InitWith("nsf", mi, si, num_samples_nsf, LossVals, LogVals)
  \/ \E mi \in 1..MaxIter, si \in 1..MaxShow :
       InitWith("rnvp", mi, si, num_samples_rnvp, LossVals, LogVals)
  \/ InitWith("readme", 0, 1, 0, LossVals, LogVals)

\* the neural-spline-flow notebook with the numbers of its training cell,
\* on a run in which every library value is finite
InitPaper ==
  InitWith("nsf", max_iter_nsf, show_iter_nsf, num_samples_nsf, {"fin"}, {"fin"})

Op(name) == ops' = Append(ops, name)

\* the arrays model.log_prob / target.log_prob of the library may return
LibLogProb == [Grid -> env.logp]

\* plt.pcolormesh(.., prob.data.numpy()) / ax.plot_surface(.., facecolors=..)
Render(call, src, dens, arr) ==
  plotted' = [call |-> call, src |-> src, prob |-> dens, arr |-> arr]

\* a snapshot of the model at the time of a grid evaluation
Snapshot == [it |-> it, steps |-> optSteps, logged |-> Len(loss_hist),
             mode |-> mode, noGrad |-> noGrad]

\* ================================================= paper_example_nsf.ipynb
\* cell dc02e62b: plot target
NSF_PlotTarget ==
  /\ nb = "nsf" /\ pc = "nsf_plot_target"
  /\ log_prob' = [c \in Grid |-> GaussianVonMises_log_prob(c)]
  /\ prob' = ZeroNaN(TorchExp(log_prob'))
  /\ Render("pcolormesh", "target", prob', prob')
  /\ pc' = "nsf_flows"
  /\ UNCHANGED <<ctl, build, loopv, lossv, loss_hist, optv, sched, modev,
                 evalAt, nshown, files, ops>>

\* cell ab4234be: for i in range(K): flow_layers += [...]
NSF_AddFlowLayer ==
  /\ nb = "nsf" /\ pc = "nsf_flows"
  /\ i < K_nsf
  /\ flows' = Append(flows, [type |-> "CircularAutoregressiveRationalQuadraticSpline",
                             mask |-> <<>>])
  /\ i' = i + 1
  /\ UNCHANGED <<nb, pc, env, max_iter, show_iter, num_samples, loopv, lossv,
                 loss_hist, optv, sched, modev, densv, outv, ops>>

\* cell ab4234be: model = nf.NormalizingFlow(base, flow_layers, target)
NSF_Construct ==
  /\ nb = "nsf" /\ pc = "nsf_flows"
  /\ i = K_nsf
  /\ mode' = "train"
  /\ pc' = "nsf_plot_model"
  /\ UNCHANGED <<ctl, build, loopv, lossv, loss_hist, optv, sched, noGrad,
                 densv, outv, ops>>

\* cell be7a29e8: plot model
NSF_PlotModel ==
  /\ nb = "nsf" /\ pc = "nsf_plot_model"
  /\ \E lp \in LibLogProb : log_prob' = lp
  /\ evalAt' = Snapshot
  /\ prob' = ZeroNaN(TorchExp(log_prob'))
  /\ Render("pcolormesh", "model", prob', prob')
  /\ pc' = "nsf_setup"
  /\ UNCHANGED <<ctl, build, loopv, lossv, loss_hist, optv, sched, modev,
                 nshown, files, ops>>

\* scheduler = CosineAnnealingLR(optimizer, max_iter): the annealing period
T_max == max_iter

\* cell 34efecc6: loss_hist, optimizer, scheduler
NSF_TrainSetup ==
  /\ nb = "nsf" /\ pc = "nsf_setup"
  /\ loss_hist' = <<>>
  /\ grad' = {} /\ optSteps' = 0 /\ lastStep' = {}
  /\ sched' = 0
  /\ pc' = "nsf_for"
  /\ UNCHANGED <<ctl, build, loopv, lossv, modev, densv, outv, ops>>

\* for it in tqdm(range(max_iter))
\* faulty variant: the loop ends at the first non-finite loss
NSF_ForNextBreakOnNonFinite ==
  /\ nb = "nsf" /\ pc = "nsf_for"
  /\ IF it + 1 < max_iter /\ IsFinite(loss)
       THEN /\ it' = it + 1
            /\ iters' = iters + 1
            /\ ops' = <<>>
            /\ pc' = "nsf_zero_grad"
       ELSE /\ pc' = "nsf_plot_loss"
            /\ UNCHANGED <<it, iters, ops>>
  /\ UNCHANGED <<ctl, build, lossv, loss_hist, optv, sched, modev, densv, outv>>
NSF_ForNext ==
  /\ nb = "nsf" /\ pc = "nsf_for"
  /\ IF it + 1 < max_iter
       THEN /\ it' = it + 1
            /\ iters' = iters + 1
            /\ ops' = <<>>
            /\ pc' = "nsf_zero_grad"
       ELSE /\ pc' = "nsf_plot_loss"
            /\ UNCHANGED <<it, iters, ops>>
  /\ UNCHANGED <<ctl, build, lossv, loss_hist, optv, sched, modev, densv, outv>>

\* optimizer.zero_grad()
\* faulty variant: the gradients are not reset
NSF_ZeroGradOmitted ==
  /\ nb = "nsf" /\ pc = "nsf_zero_grad"
  /\ Op("zero_grad")
  /\ pc' = "nsf_loss"
  /\ UNCHANGED <<ctl, build, loopv, lossv, loss_hist, optv, sched, modev,
                 densv, outv>>
NSF_ZeroGrad ==
  /\ nb = "nsf" /\ pc = "nsf_zero_grad"
  /\ grad' = {}
  /\ Op("zero_grad")
  /\ pc' = "nsf_loss"
  /\ UNCHANGED <<ctl, build, loopv, lossv, loss_hist, optSteps, lastStep,
                 sched, modev, densv, outv>>

\* loss = model.reverse_kld(num_samples)
NSF_ReverseKld ==
  /\ nb = "nsf" /\ pc = "nsf_loss"
  /\ \E l \in env.loss : loss' = l
  /\ lossFrom' = [method |-> "reverse_kld", src |-> "model",
                  n |-> num_samples, it |-> it]
  /\ Op("loss")
  /\ pc' = "nsf_check"
  /\ UNCHANGED <<ctl, build, loopv, x, loss_hist, optv, sched, modev, densv, outv>>

\* if ~(torch.isnan(loss) | torch.isinf(loss)):
\* faulty variant: the guard tests NaN only
NSF_CheckLossNaNOnly ==
  /\ nb = "nsf" /\ pc = "nsf_check"
  /\ pc' = IF ~isnan(loss) THEN "nsf_backward" ELSE "nsf_log"
  /\ UNCHANGED <<ctl, build, loopv, lossv, loss_hist, optv, sched, modev,
                 densv, outv, ops>>
NSF_CheckLoss ==
  /\ nb = "nsf" /\ pc = "nsf_check"
  /\ pc' = IF ~(isnan(loss) \/ isinf(loss)) THEN "nsf_backward" ELSE "nsf_log"
  /\ UNCHANGED <<ctl, build, loopv, lossv, loss_hist, optv, sched, modev,
                 densv, outv, ops>>

\* loss.backward()
NSF_Backward ==
  /\ nb = "nsf" /\ pc = "nsf_backward"
  /\ grad' = grad \cup {[it |-> it, loss |-> loss]}
  /\ Op("backward")
  /\ pc' = "nsf_step"
  /\ UNCHANGED <<ctl, build, loopv, lossv, loss_hist, optSteps, lastStep,
                 sched, modev, densv, outv>>

\* optimizer.step()
NSF_OptStep ==
  /\ nb = "nsf" /\ pc = "nsf_step"
  /\ optSteps' = optSteps + 1
  /\ lastStep' = grad
  /\ Op("step")
  /\ pc' = "nsf_log"
  /\ UNCHANGED <<ctl, build, loopv, lossv, loss_hist, grad, sched, modev,
                 densv, outv>>

\* loss_hist = np.append(loss_hist, loss.to('cpu').data.numpy())
\* faulty variant: only finite losses are logged
NSF_LogLossFiniteOnly ==
  /\ nb = "nsf" /\ pc = "nsf_log"
  /\ loss_hist' = IF IsFinite(loss) THEN Append(loss_hist, loss) ELSE loss_hist
  /\ Op("log")
  /\ pc' = "nsf_show"
  /\ UNCHANGED <<ctl, build, loopv, lossv, optv, sched, modev, densv, outv>>
NSF_LogLoss ==
  /\ nb = "nsf" /\ pc = "nsf_log"
  /\ loss_hist' = Append(loss_hist, loss)
  /\ Op("log")
  /\ pc' = "nsf_show"
  /\ UNCHANGED <<ctl, build, loopv, lossv, optv, sched, modev, densv, outv>>

\* if (it + 1) % show_iter == 0:
\* faulty variant: it % show_iter == 0
NSF_ShowCheckOffByOne ==
  /\ nb = "nsf" /\ pc = "nsf_show"
  /\ pc' = IF it % show_iter = 0 THEN "nsf_eval_mode" ELSE "nsf_sched"
  /\ UNCHANGED <<ctl, build, loopv, lossv, loss_hist, optv, sched, modev,
                 densv, outv, ops>>
\* faulty variant: (it + 1) % show_iter == 1
NSF_ShowCheckRemainderOne ==
  /\ nb = "nsf" /\ pc = "nsf_show"
  /\ pc' = IF (it + 1) % show_iter = 1 % show_iter THEN "nsf_eval_mode" ELSE "nsf_sched"
  /\ UNCHANGED <<ctl, build, loopv, lossv, loss_hist, optv, sched, modev,
                 densv, outv, ops>>
NSF_ShowCheck ==
  /\ nb = "nsf" /\ pc = "nsf_show"
  /\ pc' = IF (it + 1) % show_iter = 0 THEN "nsf_eval_mode" ELSE "nsf_sched"
  /\ UNCHANGED <<ctl, build, loopv, lossv, loss_hist, optv, sched, modev,
                 densv, outv, ops>>

\* model.eval(); with torch.no_grad():
NSF_EvalMode ==
  /\ nb = "nsf" /\ pc = "nsf_eval_mode"
  /\ mode' = "eval"
  /\ noGrad' = TRUE
  /\ Op("eval")
  /\ pc' = "nsf_grid"
  /\ UNCHANGED <<ctl, build, loopv, lossv, loss_hist, optv, sched, densv, outv>>

\* log_prob = model.log_prob(zz.to(device)).to('cpu').view(*xx.shape)
NSF_GridLogProb ==
  /\ nb = "nsf" /\ pc = "nsf_grid"
  /\ \E lp \in LibLogProb : log_prob' = lp
  /\ evalAt' = Snapshot
  /\ noGrad' = FALSE
  /\ Op("log_prob")
  /\ pc' = "nsf_train_mode"
  /\ UNCHANGED <<ctl, build, loopv, lossv, loss_hist, optv, sched, mode,
                 prob, outv>>

\* model.train()
\* faulty variant: training mode is not restored
NSF_TrainModeOmitted ==
  /\ nb = "nsf" /\ pc = "nsf_train_mode"
  /\ Op("train")
  /\ pc' = "nsf_density"
  /\ UNCHANGED <<ctl, build, loopv, lossv, loss_hist, optv, sched, modev,
                 densv, outv>>
NSF_TrainMode ==
  /\ nb = "nsf" /\ pc = "nsf_train_mode"
  /\ mode' = "train"
  /\ Op("train")
  /\ pc' = "nsf_density"
  /\ UNCHANGED <<ctl, build, loopv, lossv, loss_hist, optv, sched, noGrad,
                 densv, outv>>

\* prob = torch.exp(log_prob); prob[torch.isnan(prob)] = 0
NSF_Density ==
  /\ nb = "nsf" /\ pc = "nsf_density"
  /\ prob' = ZeroNaN(TorchExp(log_prob))
  /\ Op("density")
  /\ pc' = "nsf_plot"
  /\ UNCHANGED <<ctl, build, loopv, lossv, loss_hist, optv, sched, modev,
                 log_prob, evalAt, outv>>

\* plt.pcolormesh(yy, xx, prob.data.numpy(), cmap='coolwarm')
NSF_Plot ==
  /\ nb = "nsf" /\ pc = "nsf_plot"
  /\ Render("pcolormesh", "model", prob, prob)
  /\ nshown' = nshown + 1
  /\ Op("plot")
  /\ pc' = "nsf_save"
  /\ UNCHANGED <<ctl, build, loopv, lossv, loss_hist, optv, sched, modev,
                 densv, files>>

\* model.save('model_%05i.pt' % (it + 1))
NSF_Save ==
  /\ nb = "nsf" /\ pc = "nsf_save"
  /\ files' = Append(files, CheckpointName(it))
  /\ Op("save")
  /\ pc' = "nsf_sched"
  /\ UNCHANGED <<ctl, build, loopv, lossv, loss_hist, optv, sched, modev,
                 densv, plotted, nshown>>

\* scheduler.step()
\* faulty variant: the scheduler is stepped only after a finite loss
NSF_SchedStepIfFinite ==
  /\ nb = "nsf" /\ pc = "nsf_sched"
  /\ sched' = IF IsFinite(loss) THEN sched + 1 ELSE sched
  /\ Op("sched")
  /\ pc' = "nsf_for"
  /\ UNCHANGED <<ctl, build, loopv, lossv, loss_hist, optv, modev, densv, outv>>
NSF_SchedStep ==
  /\ nb = "nsf" /\ pc = "nsf_sched"
  /\ sched' = sched + 1
  /\ Op("sched")
  /\ pc' = "nsf_for"
  /\ UNCHANGED <<ctl, build, loopv, lossv, loss_hist, optv, modev, densv, outv>>

\* plt.plot(loss_hist, label='loss')
NSF_PlotLoss ==
  /\ nb = "nsf" /\ pc = "nsf_plot_loss"
  /\ pc' = "nsf_cylinder"
  /\ UNCHANGED <<ctl, build, loopv, lossv, loss_hist, optv, sched, modev,
                 densv, outv, ops>>

\* cell c4a4b07d: prob_vis = prob / torch.max(prob); ax.plot_surface(...)
NSF_Cylinder ==
  /\ nb = "nsf" /\ pc = "nsf_cylinder"
  /\ Render("plot_surface", "model", prob, Normalise(prob))
  /\ pc' = "nsf_2d_target"
  /\ UNCHANGED <<ctl, build, loopv, lossv, loss_hist, optv, sched, modev,
                 densv, nshown, files, ops>>

\* cell a359e9c7, left panel: the target density
NSF_Plot2DTarget ==
  /\ nb = "nsf" /\ pc = "nsf_2d_target"
  /\ log_prob' = [c \in Grid |-> GaussianVonMises_log_prob(c)]
  /\ prob' = ZeroNaN(TorchExp(log_prob'))
  /\ Render("pcolormesh", "target", prob', prob')
  /\ pc' = "nsf_2d_model"
  /\ UNCHANGED <<ctl, build, loopv, lossv, loss_hist, optv, sched, modev,
                 evalAt, nshown, files, ops>>

\* cell a359e9c7, right panel: the model density
NSF_Plot2DModel ==
  /\ nb = "nsf" /\ pc = "nsf_2d_model"
  /\ \E lp \in LibLogProb : log_prob' = lp
  /\ evalAt' = Snapshot
  /\ prob' = ZeroNaN(TorchExp(log_prob'))
  /\ Render("pcolormesh", "model", prob', prob')
  /\ pc' = "nsf_3d_target"
  /\ UNCHANGED <<ctl, build, loopv, lossv, loss_hist, optv, sched, modev,
                 nshown, files, ops>>

\* cell ff90c95a, left surface: the target density
NSF_Plot3DTarget ==
  /\ nb = "nsf" /\ pc = "nsf_3d_target"
  /\ log_prob' = [c \in Grid |-> GaussianVonMises_log_prob(c)]
  /\ prob' = ZeroNaN(TorchExp(log_prob'))
  /\ Render("plot_surface", "target", prob', Normalise(prob'))
  /\ pc' = "nsf_3d_model"
  /\ UNCHANGED <<ctl, build, loopv, lossv, loss_hist, optv, sched, modev,
                 evalAt, nshown, files, ops>>

\* cell ff90c95a, right surface: the model density
NSF_Plot3DModel ==
  /\ nb = "nsf" /\ pc = "nsf_3d_model"
  /\ \E lp \in LibLogProb : log_prob' = lp
  /\ evalAt' = Snapshot
  /\ prob' = ZeroNaN(TorchExp(log_prob'))
  /\ Render("plot_surface", "model", prob', Normalise(prob'))
  /\ pc' = "done"
  /\ UNCHANGED <<ctl, build, loopv, lossv, loss_hist, optv, sched, modev,
                 nshown, files, ops>>

NextNSF ==
  \/ NSF_PlotTarget \/ NSF_AddFlowLayer \/ NSF_Construct \/ NSF_PlotModel
  \/ NSF_TrainSetup \/ NSF_ForNext \/ NSF_ZeroGrad \/ NSF_ReverseKld
  \/ NSF_CheckLoss \/ NSF_Backward \/ NSF_OptStep \/ NSF_LogLoss
  \/ NSF_ShowCheck \/ NSF_EvalMode \/ NSF_GridLogProb \/ NSF_TrainMode
  \/ NSF_Density \/ NSF_Plot \/ NSF_Save \/ NSF_SchedStep \/ NSF_PlotLoss
  \/ NSF_Cylinder \/ NSF_Plot2DTarget \/ NSF_Plot2DModel
  \/ NSF_Plot3DTarget \/ NSF_Plot3DModel

SpecPaper == InitPaper /\ [][NextNSF]_vars

\* ==================================================== Real NVP notebook
\* b = torch.tensor([0, 1])
b == <<0, 1>>
\* 1 - b
OneMinus(m) == [d \in DOMAIN m |-> 1 - m[d]]

\* the mask of layer i: b if i % 2 == 0 else 1 - b
\* faulty variant: every layer gets mask b
LayerMaskSame(j) == b
LayerMask(j) == IF j % 2 = 0 THEN b ELSE OneMinus(b)

\* for i in range(K): flows += [nf.flows.MaskedAffineFlow(mask, t, s)]
RNVP_AddFlow ==
  /\ nb = "rnvp" /\ pc = "rnvp_flows"
  /\ i < K_rnvp
  /\ flows' = Append(flows, [type |-> "MaskedAffineFlow", mask |-> LayerMask(i)])
  /\ i' = i + 1
  /\ UNCHANGED <<nb, pc, env, max_iter, show_iter, num_samples, loopv, lossv,
                 loss_hist, optv, sched, modev, densv, outv, ops>>

\* nfm = nf.NormalizingFlow(q0=q0, flows=flows, p=target)
RNVP_Construct ==
  /\ nb = "rnvp" /\ pc = "rnvp_flows"
  /\ i = K_rnvp
  /\ mode' = "train"
  /\ pc' = "rnvp_plot_prior"
  /\ UNCHANGED <<ctl, build, loopv, lossv, loss_hist, optv, sched, noGrad,
                 densv, outv, ops>>

\* Plot prior distribution: exp of target.log_prob, rendered as computed
RNVP_PlotPrior ==
  /\ nb = "rnvp" /\ pc = "rnvp_plot_prior"
  /\ \E lp \in LibLogProb : log_prob' = lp
  /\ prob' = TorchExp(log_prob')
  /\ Render("pcolormesh", "target", prob', prob')
  /\ pc' = "rnvp_plot_initial"
  /\ UNCHANGED <<ctl, build, loopv, lossv, loss_hist, optv, sched, modev,
                 evalAt, nshown, files, ops>>

\* Plot initial posterior distribution
RNVP_PlotInitial ==
  /\ nb = "rnvp" /\ pc = "rnvp_plot_initial"
  /\ \E lp \in LibLogProb : log_prob' = lp
  /\ evalAt' = Snapshot
  /\ prob' = ZeroNaN(TorchExp(log_prob'))
  /\ Render("pcolormesh", "model", prob', prob')
  /\ pc' = "rnvp_setup"
  /\ UNCHANGED <<ctl, build, loopv, lossv, loss_hist, optv, sched, modev,
                 nshown, files, ops>>

\* loss_hist = np.array([]); optimizer = torch.optim.Adam(...)
RNVP_TrainSetup ==
  /\ nb = "rnvp" /\ pc = "rnvp_setup"
  /\ loss_hist' = <<>>
  /\ grad' = {} /\ optSteps' = 0 /\ lastStep' = {}
  /\ pc' = "rnvp_for"
  /\ UNCHANGED <<ctl, build, loopv, lossv, sched, modev, densv, outv, ops>>

\* for it in tqdm(range(max_iter))
RNVP_ForNext ==
  /\ nb = "rnvp" /\ pc = "rnvp_for"
  /\ IF it + 1 < max_iter
       THEN /\ it' = it + 1
            /\ iters' = iters + 1
            /\ ops' = <<>>
            /\ pc' = "rnvp_zero_grad"
       ELSE /\ pc' = "rnvp_plot_loss"
            /\ UNCHANGED <<it, iters, ops>>
  /\ UNCHANGED <<ctl, build, lossv, loss_hist, optv, sched, modev, densv, outv>>

\* optimizer.zero_grad()
RNVP_ZeroGrad ==
  /\ nb = "rnvp" /\ pc = "rnvp_zero_grad"
  /\ grad' = {}
  /\ Op("zero_grad")
  /\ pc' = "rnvp_sample"
  /\ UNCHANGED <<ctl, build, loopv, lossv, loss_hist, optSteps, lastStep,
                 sched, modev, densv, outv>>

\* x = nfm.p.sample(num_samples).double()
\* faulty variant: the batch is drawn in the first iteration only
RNVP_SampleOnce ==
  /\ nb = "rnvp" /\ pc = "rnvp_sample"
  /\ x' = IF x = NoBatch THEN [src |-> "target", n |-> num_samples, it |-> it] ELSE x
  /\ Op("sample")
  /\ pc' = "rnvp_loss"
  /\ UNCHANGED <<ctl, build, loopv, loss, lossFrom, loss_hist, optv, sched,
                 modev, densv, outv>>
RNVP_Sample ==
  /\ nb = "rnvp" /\ pc = "rnvp_sample"
  /\ x' = [src |-> "target", n |-> num_samples, it |-> it]
  /\ Op("sample")
  /\ pc' = "rnvp_loss"
  /\ UNCHANGED <<ctl, build, loopv, loss, lossFrom, loss_hist, optv, sched,
                 modev, densv, outv>>

\* loss = nfm.forward_kld(x)
RNVP_ForwardKld ==
  /\ nb = "rnvp" /\ pc = "rnvp_loss"
  /\ \E l \in env.loss : loss' = l
  /\ lossFrom' = [method |-> "forward_kld", src |-> x.src, n |-> x.n, it |-> x.it]
  /\ Op("loss")
  /\ pc' = "rnvp_backward"
  /\ UNCHANGED <<ctl, build, loopv, x, loss_hist, optv, sched, modev, densv, outv>>

\* loss.backward()
RNVP_Backward ==
  /\ nb = "rnvp" /\ pc = "rnvp_backward"
  /\ grad' = grad \cup {[it |-> it, loss |-> loss]}
  /\ Op("backward")
  /\ pc' = "rnvp_step"
  /\ UNCHANGED <<ctl, build, loopv, lossv, loss_hist, optSteps, lastStep,
                 sched, modev, densv, outv>>

\* optimizer.step()
RNVP_OptStep ==
  /\ nb = "rnvp" /\ pc = "rnvp_step"
  /\ optSteps' = optSteps + 1
  /\ lastStep' = grad
  /\ Op("step")
  /\ pc' = "rnvp_log"
  /\ UNCHANGED <<ctl, build, loopv, lossv, loss_hist, grad, sched, modev,
                 densv, outv>>

\* loss_hist = np.append(loss_hist, loss.to('cpu').data.numpy())
RNVP_LogLoss ==
  /\ nb = "rnvp" /\ pc = "rnvp_log"
  /\ loss_hist' = Append(loss_hist, loss)
  /\ Op("log")
  /\ pc' = "rnvp_show"
  /\ UNCHANGED <<ctl, build, loopv, lossv, optv, sched, modev, densv, outv>>

\* if (it + 1) % show_iter == 0:
RNVP_ShowCheck ==
  /\ nb = "rnvp" /\ pc = "rnvp_show"
  /\ pc' = IF (it + 1) % show_iter = 0 THEN "rnvp_density" ELSE "rnvp_for"
  /\ UNCHANGED <<ctl, build, loopv, lossv, loss_hist, optv, sched, modev,
                 densv, outv, ops>>

\* log_prob = nfm.log_prob(zz); prob = torch.exp(log_prob); prob[isnan] = 0
RNVP_Density ==
  /\ nb = "rnvp" /\ pc = "rnvp_density"
  /\ \E lp \in LibLogProb : log_prob' = lp
  /\ evalAt' = Snapshot
  /\ prob' = ZeroNaN(TorchExp(log_prob'))
  /\ Op("density")
  /\ pc' = "rnvp_plot"
  /\ UNCHANGED <<ctl, build, loopv, lossv, loss_hist, optv, sched, modev, outv>>

\* plt.pcolormesh(xx, yy, prob.data.numpy())
RNVP_Plot ==
  /\ nb = "rnvp" /\ pc = "rnvp_plot"
  /\ Render("pcolormesh", "model", prob, prob)
  /\ nshown' = nshown + 1
  /\ Op("plot")
  /\ pc' = "rnvp_for"
  /\ UNCHANGED <<ctl, build, loopv, lossv, loss_hist, optv, sched, modev,
                 densv, files>>

\* plt.plot(loss_hist, label='loss')
RNVP_PlotLoss ==
  /\ nb = "rnvp" /\ pc = "rnvp_plot_loss"
  /\ pc' = "rnvp_plot_learned"
  /\ UNCHANGED <<ctl, build, loopv, lossv, loss_hist, optv, sched, modev,
                 densv, outv, ops>>

\* last cell: plot learned distribution
RNVP_PlotLearned ==
  /\ nb = "rnvp" /\ pc = "rnvp_plot_learned"
  /\ \E lp \in LibLogProb : log_prob' = lp
  /\ evalAt' = Snapshot
  /\ prob' = ZeroNaN(TorchExp(log_prob'))
  /\ Render("pcolormesh", "model", prob', prob')
  /\ pc' = "done"
  /\ UNCHANGED <<ctl, build, loopv, lossv, loss_hist, optv, sched, modev,
                 nshown, files, ops>>

NextRNVP ==
  \/ RNVP_AddFlow \/ RNVP_Construct \/ RNVP_PlotPrior \/ RNVP_PlotInitial
  \/ RNVP_TrainSetup \/ RNVP_ForNext \/ RNVP_ZeroGrad \/ RNVP_Sample
  \/ RNVP_ForwardKld \/ RNVP_Backward \/ RNVP_OptStep \/ RNVP_LogLoss
  \/ RNVP_ShowCheck \/ RNVP_Density \/ RNVP_Plot \/ RNVP_PlotLoss
  \/ RNVP_PlotLearned

\* ============================================================ README Usage
\* flows.append(nf.flows.AffineCouplingBlock(param_map))
README_AddBlock ==
  /\ nb = "readme" /\ pc = "readme_block"
  /\ i < num_layers
  /\ flows' = Append(flows, [type |-> "AffineCouplingBlock", mask |-> <<>>])
  /\ pc' = "readme_permute"
  /\ UNCHANGED <<ctl, i, loopv, lossv, loss_hist, optv, sched, modev, densv,
                 outv, ops>>

\* flows.append(nf.flows.Permute(2, mode='swap'))
README_AddPermute ==
  /\ nb = "readme" /\ pc = "readme_permute"
  /\ flows' = Append(flows, [type |-> "Permute", mask |-> <<>>])
  /\ i' = i + 1
  /\ pc' = "readme_block"
  /\ UNCHANGED <<ctl, loopv, lossv, loss_hist, optv, sched, modev, densv,
                 outv, ops>>

\* model = nf.NormalizingFlow(base, flows)
README_Construct ==
  /\ nb = "readme" /\ pc = "readme_block"
  /\ i = num_layers
  /\ mode' = "train"
  /\ pc' = "done"
  /\ UNCHANGED <<ctl, build, loopv, lossv, loss_hist, optv, sched, noGrad,
                 densv, outv, ops>>

NextREADME == README_AddBlock \/ README_AddPermute \/ README_Construct

Next == NextNSF \/ NextRNVP \/ NextREADME

Spec == Init /\ [][Next]_vars

\* ================================================================ claims
\* statement name has been executed in the current iteration
Did(name) == \E k \in 1..Len(ops) : ops[k] = name

\* the script is past its training loop
AfterLoop == pc \in {"nsf_plot_loss", "nsf_cylinder", "nsf_2d_target",
                     "nsf_2d_model", "nsf_3d_target", "nsf_3d_model",
                     "rnvp_plot_loss", "rnvp_plot_learned"}
             \/ (pc = "done" /\ nb # "readme")

\* the current iteration has computed a non-finite loss
NonFiniteLoss == Did("loss") /\ ~IsFinite(loss)

\* C1 as stated: in every training loop, an iteration whose loss is
\* non-finite performs no optimizer step.
C1_EveryLoopSkips == NonFiniteLoss => ~Did("step")

\* C1 amended: in the neural-spline-flow loop an iteration whose loss is
\* non-finite performs no optimizer step (and every step applied a gradient
\* of a finite loss); the Real NVP loop steps the optimizer in every
\* iteration, whatever the loss.
C1_NSFSkipsRNVPSteps ==
  /\ nb = "nsf" => /\ NonFiniteLoss => ~Did("step")
                   /\ \A g \in lastStep : IsFinite(g.loss)
  /\ nb = "rnvp" /\ Did("log") => Did("step")

C1_Witness ==
  /\ nb = "nsf" /\ pc = "nsf_for"
  /\ NonFiniteLoss /\ Did("log") /\ ~Did("step")
  /\ optSteps = 1 /\ it = 1

\* C2 as stated: every array passed to a plotting call has only finite
\* entries.
C2_PlottedAllFinite ==
  plotted.call # None => \A c \in DOMAIN plotted.arr : plotted.arr[c] \in {"zero", "pos"}

\* C2 amended: the density array a picture is rendered from holds no NaN:
\* every NaN produced by exponentiating the log-density has been replaced by
\* zero, for every model density and for the target density of the
\* neural-spline-flow notebook. (+inf entries are kept, and the Real NVP
\* target density is rendered as computed.)
C2_PlottedNoNaN ==
  (plotted.call # None /\ ~(nb = "rnvp" /\ plotted.src = "target"))
    => \A c \in DOMAIN plotted.prob : plotted.prob[c] # "nan"

C2_Witness ==
  /\ plotted.call = "pcolormesh" /\ plotted.src = "model"
  /\ plotted.prob = prob
  /\ \E c \in Grid : log_prob[c] = "nan" /\ plotted.arr[c] = "zero"

\* C3: the loss history has one entry per completed iteration, entry it+1
\* being the loss of iteration it, also when the loss is non-finite; after
\* the loop it has max_iter entries.
C3_LossHistPerIteration ==
  /\ Len(loss_hist) = IF Did("log") THEN it + 1 ELSE IF it < 0 THEN 0 ELSE it
  /\ Did("log") => loss_hist[it + 1] = loss
  /\ AfterLoop => Len(loss_hist) = max_iter

C3_Witness ==
  /\ nb = "nsf" /\ AfterLoop
  /\ Len(loss_hist) = 2
  /\ ~IsFinite(loss_hist[1]) /\ IsFinite(loss_hist[2])

\* C4: the loop body runs for it = 0 .. max_iter-1 and the loop then ends,
\* whatever the losses were.
C4_ExactlyMaxIter ==
  /\ it < max_iter
  /\ iters = it + 1
  /\ AfterLoop => iters = max_iter

C4_Witness ==
  /\ nb = "nsf" /\ AfterLoop /\ iters = max_iter /\ max_iter = 3
  /\ ~IsFinite(loss_hist[1]) /\ ~IsFinite(loss_hist[3])

\* the training statements of the current iteration, in execution order
TrainOps == SelectSeq(ops, LAMBDA o : o \in {"zero_grad", "loss", "backward", "step"})

IsPrefix(s, t) == Len(s) <= Len(t) /\ SubSeq(t, 1, Len(s)) = s

\* C5: in every iteration the order is zero_grad, loss, backward, step; a
\* step applies exactly the gradient of the same iteration's loss.
C5_StepOrder ==
  /\ IsPrefix(TrainOps, <<"zero_grad", "loss", "backward", "step">>)
  /\ Did("step") => lastStep = {[it |-> it, loss |-> loss]}
  /\ Did("backward") => grad = {[it |-> it, loss |-> loss]}

C5_Witness == Did("step") /\ it = 1 /\ optSteps = 2

\* C6: a plot is made in iteration it exactly when (it+1) is a multiple of
\* show_iter, max_iter \div show_iter plots in all, each from an evaluation
\* made after that iteration's update, so the k-th plot shows the model after
\* k * show_iter iterations.
C6_PeriodicPlot ==
  /\ nshown = IF Did("plot") THEN (it + 1) \div show_iter
              ELSE IF it < 0 THEN 0 ELSE it \div show_iter
  /\ Did("plot") => (it + 1) % show_iter = 0
  /\ (Did("plot") /\ ~AfterLoop) =>
        /\ evalAt = [it |-> it, steps |-> optSteps, logged |-> it + 1,
                     mode |-> evalAt.mode, noGrad |-> evalAt.noGrad]
        /\ plotted.prob = prob
        /\ it + 1 = nshown * show_iter
  /\ AfterLoop => nshown = max_iter \div show_iter

C6_Witness == Did("plot") /\ nshown = 2 /\ show_iter = 1 /\ optSteps = 1

\* number of checkpoints due in the current state
FilesDue == IF Did("save") THEN (it + 1) \div show_iter
            ELSE IF AfterLoop THEN max_iter \div show_iter
            ELSE IF it < 0 THEN 0 ELSE it \div show_iter

\* C7 as stated: every training loop writes a checkpoint in exactly the
\* iterations for which (it+1) is a multiple of show_iter.
C7_EveryLoopSaves ==
  /\ Len(files) = FilesDue
  /\ Did("save") => (it + 1) % show_iter = 0

\* C7 amended: the neural-spline-flow loop writes a checkpoint in exactly
\* the iterations for which (it+1) is a multiple of show_iter; the Real NVP
\* loop writes no file.
C7_NSFSavesRNVPNot ==
  /\ nb = "nsf" => /\ Len(files) = FilesDue
                   /\ Did("save") => (it + 1) % show_iter = 0
  /\ nb = "rnvp" => files = <<>>

C7_Witness == nb = "nsf" /\ Len(files) = 1 /\ show_iter = 2 /\ it = 2

\* the dimensions a masked affine layer transforms, and those it conditions on
Transformed(layer) == {d \in DOMAIN layer.mask : layer.mask[d] = 0}
Conditioning(layer) == {d \in DOMAIN layer.mask : layer.mask[d] = 1}

\* the layers of the list built so far that transform dimension d
LayersTransforming(d) == {j \in 1..Len(flows) : d \in Transformed(flows[j])}

RECURSIVE CouplingTargets(_, _)
\* README list: the original dimension each AffineCouplingBlock of fl
\* transforms (a block transforms the second of the two channels, order is
\* the current arrangement of the original dimensions)
CouplingTargets(fl, order) ==
  IF fl = <<>> THEN <<>>
  ELSE IF Head(fl).type = "AffineCouplingBlock"
       THEN <<order[2]>> \o CouplingTargets(Tail(fl), order)
       ELSE CouplingTargets(Tail(fl), <<order[2], order[1]>>)

\* C8: consecutive coupling layers swap the roles of the two dimensions. In
\* the README list every AffineCouplingBlock is followed by a swap Permute
\* and the list has 2 * num_layers entries; in the Real NVP notebook layer i
\* has mask b for even i and 1 - b for odd i, and each dimension is
\* transformed by K / 2 of the K layers.
C8_RolesSwap ==
  /\ nb = "rnvp" =>
       /\ \A j \in 1..Len(flows) :
            flows[j].mask = IF (j - 1) % 2 = 0 THEN <<0, 1>> ELSE <<1, 0>>
       /\ \A j \in 1..(Len(flows) - 1) :
            /\ Transformed(flows[j]) = Conditioning(flows[j + 1])
            /\ Conditioning(flows[j]) = Transformed(flows[j + 1])
       /\ pc # "rnvp_flows" =>
            /\ Len(flows) = K_rnvp
            /\ \A d \in 1..2 : 2 * Cardinality(LayersTransforming(d)) = K_rnvp
  /\ nb = "readme" =>
       /\ \A j \in 1..Len(flows) :
            flows[j].type = "AffineCouplingBlock" =>
              IF j < Len(flows) THEN flows[j + 1].type = "Permute"
              ELSE pc = "readme_permute"
       /\ LET tg == CouplingTargets(flows, <<1, 2>>)
          IN \A j \in 1..(Len(tg) - 1) : tg[j] # tg[j + 1]
       /\ pc = "done" => Len(flows) = 2 * num_layers

C8_Witness ==
  /\ nb = "rnvp" /\ pc = "rnvp_plot_prior"
  /\ Cardinality(LayersTransforming(1)) = 16
  /\ Cardinality(LayersTransforming(2)) = 16

\* C9: the maximum-likelihood loop draws a fresh batch of num_samples points
\* from the target in every iteration before computing the loss from it; the
\* reverse-KL loop draws nothing from the target and computes the loss from
\* num_samples points of the model.
C9_BatchSource ==
  /\ (nb = "rnvp" /\ Did("loss")) =>
       /\ x = [src |-> "target", n |-> num_samples_rnvp, it |-> it]
       /\ lossFrom = [method |-> "forward_kld", src |-> "target",
                      n |-> num_samples_rnvp, it |-> it]
       /\ IsPrefix(<<"zero_grad", "sample", "loss">>, ops)
  /\ nb = "nsf" =>
       /\ x = NoBatch
       /\ ~Did("sample")
       /\ Did("loss") => lossFrom = [method |-> "reverse_kld", src |-> "model",
                                     n |-> num_samples_nsf, it |-> it]

C9_Witness == nb = "rnvp" /\ Did("loss") /\ it = 1 /\ x.it = 1

\* the five decimal digits of n < 100000, most significant first
FiveDigits(n) ==
  DigitChar[((n \div 10000) % 10) + 1] \o DigitChar[((n \div 1000) % 10) + 1]
    \o DigitChar[((n \div 100) % 10) + 1] \o DigitChar[((n \div 10) % 10) + 1]
    \o DigitChar[(n % 10) + 1]

\* C10: the k-th checkpoint of the neural-spline-flow loop is named
\* model_NNNNN.pt with NNNNN the number of completed iterations in five
\* digits; the names are pairwise distinct; with max_iter = 10000 and
\* show_iter = 500 there are 20 files, the last being model_10000.pt.
C10_CheckpointNames ==
  /\ \A k \in 1..Len(files) :
       files[k] = "model_" \o FiveDigits(k * show_iter) \o ".pt"
  /\ \A j, k \in 1..Len(files) : j # k => files[j] # files[k]
  /\ Did("save") => files[Len(files)] = "model_" \o FiveDigits(it + 1) \o ".pt"
  /\ AfterLoop => /\ Len(files) = 20
                  /\ files[20] = "model_10000.pt"

C10_Witness ==
  /\ max_iter = 10000 /\ show_iter = 500 /\ Did("save") /\ it = 999
  /\ files = <<"model_00500.pt", "model_01000.pt">>

\* number of logged losses that are finite
FiniteLogged == Cardinality({k \in 1..Len(loss_hist) : IsFinite(loss_hist[k])})

\* iterations completed before the current one
Before == IF it < 0 THEN 0 ELSE it

\* the statements of the periodic show block
ShowOps == {"eval", "log_prob", "train", "density", "plot", "save"}

\* the parameters and the optimizer state are untouched by an iteration
\* whose loss is non-finite: the optimizer has stepped once per finite loss
\* and never otherwise, and neither backward nor step ran
NonFiniteKeepsParams ==
  /\ optSteps = FiniteLogged + (IF Did("step") /\ ~Did("log") THEN 1 ELSE 0)
  /\ \A g \in lastStep : IsFinite(g.loss)
  /\ NonFiniteLoss =>
       /\ ~Did("backward") /\ ~Did("step")
       /\ grad = {}
       /\ \A g \in lastStep : g.it < it
       /\ Did("log") => Len(loss_hist) = it + 1 /\ loss_hist[it + 1] = loss
       /\ Did("sched") => sched = it + 1

\* C11 as stated: an iteration of the neural-spline-flow loop whose loss is
\* non-finite leaves parameters and optimizer state untouched, and only the
\* loss history and the scheduler advance.
C11_OnlyHistoryAndSchedule ==
  nb = "nsf" =>
    /\ NonFiniteKeepsParams
    /\ NonFiniteLoss =>
         \A k \in 1..Len(ops) : ops[k] \in {"zero_grad", "loss", "log", "sched"}

\* C11 amended: an iteration of the neural-spline-flow loop whose loss is
\* non-finite leaves parameters and optimizer state untouched (neither
\* backward nor step runs); the loss history and the scheduler advance, and
\* when (it+1) is a multiple of show_iter the show block still evaluates and
\* plots the density and writes a checkpoint.
C11_NonFiniteIterationFrame ==
  nb = "nsf" =>
    /\ NonFiniteKeepsParams
    /\ NonFiniteLoss =>
         /\ \A k \in 1..Len(ops) :
              ops[k] \in {"zero_grad", "loss", "log", "sched"}
                           \cup (IF (it + 1) % show_iter = 0 THEN ShowOps ELSE {})
         /\ (pc = "nsf_for" /\ (it + 1) % show_iter = 0) =>
              Did("plot") /\ Did("save") /\ Len(files) = (it + 1) \div show_iter

C11_Witness ==
  /\ nb = "nsf" /\ pc = "nsf_for" /\ it = 1 /\ show_iter = 2
  /\ NonFiniteLoss /\ Did("sched") /\ Did("save")
  /\ optSteps = 1 /\ lastStep = {[it |-> 0, loss |-> "fin"]}
  /\ Len(loss_hist) = 2 /\ sched = 2

\* position of statement name in the current iteration, 0 if not executed
Pos(name) == IF Did(name) THEN CHOOSE k \in 1..Len(ops) : ops[k] = name ELSE 0

\* C12: the scheduler is stepped once in every iteration of the
\* neural-spline-flow loop, as its last statement, whether or not the
\* optimizer stepped; after the loop it has been stepped max_iter times,
\* the annealing period it was constructed with.
C12_SchedulerOncePerIteration ==
  nb = "nsf" =>
    /\ sched = IF Did("sched") THEN it + 1 ELSE Before
    /\ Did("sched") => /\ Pos("sched") = Len(ops)
                       /\ Pos("step") < Pos("sched")
                       /\ Pos("log") < Pos("sched") /\ Did("log")
    /\ pc = "nsf_for" /\ it >= 0 => Did("sched")
    /\ AfterLoop => sched = max_iter /\ sched = T_max

C12_Witness ==
  /\ nb = "nsf" /\ AfterLoop /\ max_iter = 3
  /\ sched = 3 /\ optSteps = 1
  /\ ~IsFinite(loss_hist[1]) /\ ~IsFinite(loss_hist[3])

\* statements of the training cell of the neural-spline-flow notebook
NSFLoopPcs == {"nsf_for", "nsf_zero_grad", "nsf_loss", "nsf_check",
               "nsf_backward", "nsf_step", "nsf_log", "nsf_show",
               "nsf_eval_mode", "nsf_grid", "nsf_train_mode", "nsf_density",
               "nsf_plot", "nsf_save", "nsf_sched", "nsf_plot_loss"}

\* C13: in the neural-spline-flow loop the model is in evaluation mode only
\* for the periodic grid evaluation, which runs with gradient recording
\* disabled; it is in training mode whenever a loss is computed or a step
\* taken, and again before the plot, the checkpoint and the next iteration.
C13_TrainModeExceptGridEval ==
  (nb = "nsf" /\ pc \in NSFLoopPcs) =>
    /\ mode = IF pc \in {"nsf_grid", "nsf_train_mode"} THEN "eval" ELSE "train"
    /\ noGrad = (pc = "nsf_grid")
    /\ Did("log_prob") => evalAt.mode = "eval" /\ evalAt.noGrad

C13_Witness ==
  /\ nb = "nsf" /\ pc = "nsf_step" /\ it = 1 /\ nshown = 1
  /\ mode = "train" /\ ~noGrad
  /\ evalAt.it = 0 /\ evalAt.mode = "eval" /\ evalAt.noGrad

\* C14: when max_iter is a multiple of show_iter, the array prob the
\* cylinder cell colours its surface from is the density evaluated in the
\* last iteration, after that iteration's optimizer update; neither the
\* parameters nor prob change between that evaluation and the cell.
C14_CylinderShowsFinalModel ==
  (nb = "nsf" /\ max_iter % show_iter = 0) =>
    /\ (it = max_iter - 1 /\ Did("density")
          /\ pc \in {"nsf_plot", "nsf_save", "nsf_sched", "nsf_for",
                     "nsf_plot_loss", "nsf_cylinder", "nsf_2d_target"}) =>
         /\ evalAt.it = max_iter - 1
         /\ evalAt.logged = max_iter
         /\ evalAt.steps = optSteps
         /\ prob = ZeroNaN(TorchExp(log_prob))
    /\ pc \in {"nsf_plot_loss", "nsf_cylinder", "nsf_2d_target"} => Did("density")
    /\ pc = "nsf_2d_target" =>
         /\ plotted.call = "plot_surface"
         /\ plotted.prob = prob
         /\ plotted.arr = Normalise(prob)

C14_Witness ==
  /\ nb = "nsf" /\ pc = "nsf_2d_target"
  /\ max_iter = 2 /\ show_iter = 2 /\ optSteps = 2
  /\ plotted.call = "plot_surface" /\ evalAt.it = 1 /\ evalAt.steps = 2
====
